---- MODULE Spec2Model ----
(***************************************************************************)
(* A model of toon-token-savings: the dataset access layer (dataset.py),   *)
(* the token counting service (token_counter.py), the model catalog        *)
(* (models_info.py), the chart functions (visualization.py), the command   *)
(* line flow and its model selection (app.py) and the HTTP handlers        *)
(* (server.py).                                                            *)
(*                                                                         *)
(* Python floats are modelled as exact rationals [num, den] with den > 0.  *)
(* Texts are strings; a dataset is a JSON array of small integers.         *)
(* The two optional libraries (the TOON codec and tiktoken) are the        *)
(* environment: which of them the interpreter can import is fixed when the *)
(* modules are loaded, what their functions answer is chosen per request.  *)
(***************************************************************************)
EXTENDS Integers, Sequences, FiniteSets, TLC

\* ------------------------------------------------------------------ bounds
\* longest dataset (JSON array) a request carries
MaxLen == 2
\* largest token_count / context_limit handed to normalise_usage
MaxUsage == 4

\* ------------------------------------------------------------- Python values
None == [some |-> FALSE]
Some(v) == [some |-> TRUE, v |-> v]

Ok(v) == [ok |-> TRUE, val |-> v]
Raise(cls, msg) == [ok |-> FALSE, cls |-> cls, msg |-> msg]

\* NotImplementedError derives from RuntimeError; the other classes do not
IsRuntimeError(cls) == cls \in {"RuntimeError", "NotImplementedError"}

\* a float, kept exact
Rat(n, d) == [num |-> n, den |-> d]
RatEq(a, b) == a.num * b.den = b.num * a.den
RatLeq(a, b) == a.num * b.den <= b.num * a.den
Zero == Rat(0, 1)
One == Rat(1, 1)

\* ------------------------------------------------------------------ strings
UpperAlpha == "ABCDEFGHIJKLMNOPQRSTUVWXYZ"
LowerAlpha == "abcdefghijklmnopqrstuvwxyz"
Whitespace == {" ", "\t", "\n"}

CharAt(s, i) == SubSeq(s, i, i)

LowerChar(c) ==
    IF \E i \in 1..Len(UpperAlpha) : CharAt(UpperAlpha, i) = c
    THEN CharAt(LowerAlpha, CHOOSE i \in 1..Len(UpperAlpha) : CharAt(UpperAlpha, i) = c)
    ELSE c

RECURSIVE Lower(_)
Lower(s) ==
    IF Len(s) = 0 THEN ""
    ELSE LowerChar(CharAt(s, 1)) \o Lower(SubSeq(s, 2, Len(s)))

RECURSIVE LStrip(_)
LStrip(s) ==
    IF Len(s) > 0 /\ CharAt(s, 1) \in Whitespace
    THEN LStrip(SubSeq(s, 2, Len(s)))
    ELSE s

RECURSIVE RStrip(_)
RStrip(s) ==
    IF Len(s) > 0 /\ CharAt(s, Len(s)) \in Whitespace
    THEN RStrip(SubSeq(s, 1, Len(s) - 1))
    ELSE s

Strip(s) == RStrip(LStrip(s))

EndsWith(s, suffix) ==
    /\ Len(s) >= Len(suffix)
    /\ SubSeq(s, Len(s) - Len(suffix) + 1, Len(s)) = suffix

RECURSIVE Join(_, _)
\* sep.join(strs)
Join(sep, strs) ==
    IF Len(strs) = 0 THEN ""
    ELSE IF Len(strs) = 1 THEN strs[1]
    ELSE strs[1] \o sep \o Join(sep, Tail(strs))

\* the text s occurs in the text
Contains(text, s) ==
    \E i \in 1..(Len(text) - Len(s) + 1) : SubSeq(text, i, i + Len(s) - 1) = s

\* ----------------------------------------------------------------- datasets
\* an array element: an integer, or a string
IntItem(i) == [t |-> "int", i |-> i]
StrItem(s) == [t |-> "str", s |-> s]
\* a string that is the text of a special token of cl100k_base
EndOfText == "<|endoftext|>"
Items == {IntItem(1), StrItem(EndOfText)}
Data == UNION {[1..n -> Items] : n \in 0..MaxLen}

\* the JSON text of an element (the strings here need no escape)
JsonItem(x) == IF x.t = "int" THEN ToString(x.i) ELSE "\"" \o x.s \o "\""

\* json.dumps(data, indent=indent): indent is 2 or absent (None)
JsonDumps(data, indent) ==
    LET strs == [k \in 1..Len(data) |-> JsonItem(data[k])]
    IN  IF Len(data) = 0 THEN "[]"
        ELSE IF indent = None THEN "[" \o Join(", ", strs) \o "]"
        ELSE "[\n  " \o Join(",\n  ", strs) \o "\n]"

to_json_string(data) == JsonDumps(data, Some(2))

\* json.loads(contents): every rendering of a dataset parses back to it,
\* any other text is a JSONDecodeError
JsonTexts == [d \in Data |-> {JsonDumps(d, None), JsonDumps(d, Some(2))}]
JsonLoads(contents) ==
    IF \E d \in Data : contents \in JsonTexts[d]
    THEN Ok(CHOOSE d \in Data : contents \in JsonTexts[d])
    ELSE Raise("JSONDecodeError", "Expecting value")

\* ------------------------------------------------------- the TOON codec
\* What the import of dumps and loads from toon finds: no module, a module without
\* dumps, a module without loads, or a module with both.
ToonPackages == {"missing", "no_dumps", "no_loads", "both"}

\* the TOON text of an element (the strings here need no quotes)
ToonItem(x) == IF x.t = "int" THEN ToString(x.i) ELSE x.s

\* The codec's text of a root array of primitives
ToonText(data) ==
    LET strs == [k \in 1..Len(data) |-> ToonItem(data[k])]
    IN  IF Len(data) = 0 THEN "[0]:"
        ELSE "[" \o ToString(Len(data)) \o "]: " \o Join(",", strs)

\* an error the codec's encoder may raise on a dataset: none, or (class, message)
NoFault == [raises |-> FALSE]
CodecFaults ==
    {NoFault} \cup
    [raises : {TRUE}, cls : {"RuntimeError", "ValueError"},
     msg : {"", "cannot encode"}]

\* toon.dumps(data) of an installed codec
CodecDumps(data, fault) ==
    IF fault.raises THEN Raise(fault.cls, fault.msg) ELSE Ok(ToonText(data))

\* toon.loads(text) of an installed codec: the value whose TOON text it is,
\* a parse error of the codec on any other text
ToonTexts == [d \in Data |-> ToonText(d)]
CodecLoads(text) ==
    IF \E d \in Data : ToonTexts[d] = text
    THEN Ok(CHOOSE d \in Data : ToonTexts[d] = text)
    ELSE Raise("ValueError", "malformed TOON")

\* the messages of the two RuntimeErrors (quote marks left out)
EncInstallMsg ==
    "The toon-format package is required to encode data into TOON. "
    \o "Install it with pip install toon-format."
DecInstallMsg ==
    "The toon-format package is required to decode TOON. "
    \o "Install it with pip install toon-format."

\* ------------------------------------------------------------ the tokenizer
\* tiktoken: not importable, importable with the encoding loadable, or
\* importable with no encoding obtainable under the given name
Tokenizers == {"absent", "working", "unloadable"}

VARIABLES
    toonPkg,     \* what the interpreter finds for the module toon
    tiktoken,    \* what the interpreter finds for the module tiktoken
    last,        \* the last call: its inputs, what it did and what it answered
    cli          \* the run of the command line: its arguments and how far it is

vars == <<toonPkg, tiktoken, last, cli>>

\* dataset.py: the import guard binds both names or neither
toon_dumps == IF toonPkg = "both" THEN "function" ELSE "None"
toon_loads == IF toonPkg = "both" THEN "function" ELSE "None"

_tiktoken_available == tiktoken # "absent"

\* to_toon without its check of toon_dumps: it calls None
to_toon_unguarded(data, fault) ==
    IF toon_dumps = "None"
    THEN Raise("TypeError", "NoneType object is not callable")
    ELSE CodecDumps(data, fault)

to_toon(data, fault) ==
    IF toon_dumps = "None"
    THEN Raise("RuntimeError", EncInstallMsg)
    ELSE CodecDumps(data, fault)

from_toon(toon_string) ==
    IF toon_loads = "None"
    THEN Raise("RuntimeError", DecInstallMsg)
    ELSE CodecLoads(toon_string)

\* the estimate rounded down instead of up
_fallback_token_count_floor(text) == Len(text) \div 4

_fallback_token_count(text) == (Len(text) + 3) \div 4

\* The outcomes encoding.encode(text) can have: an error when the text holds
\* the text of a special token, else a count of at least one token for a text
\* that is not empty and of at most one token per character
EncodeOutcomes(text) ==
    IF Contains(text, EndOfText) THEN {[raises |-> TRUE, n |-> 0]}
    ELSE [raises : {FALSE}, n : (IF Len(text) = 0 THEN {0} ELSE 1..Len(text))]

\* count_tokens(text): enc is what the tokenizer answers when it is asked
count_tokens(text, enc) ==
    IF ~_tiktoken_available THEN Ok(_fallback_token_count(text))
    ELSE IF tiktoken = "unloadable"
    THEN Raise("KeyError", "Could not automatically map cl100k_base to a tokeniser")
    ELSE IF enc.raises
    THEN Raise("ValueError", "Encountered text corresponding to disallowed special token")
    ELSE Ok(enc.n)

\* savings taken relative to the TOON count
Savings_over_toon(json_tokens, toon_tokens) ==
    IF toon_tokens > 0
    THEN Rat((json_tokens - toon_tokens) * 100, toon_tokens)
    ELSE Zero

\* savings with the difference taken the other way round
Savings_swapped(json_tokens, toon_tokens) ==
    IF json_tokens > 0
    THEN Rat((toon_tokens - json_tokens) * 100, json_tokens)
    ELSE Zero

Savings(json_tokens, toon_tokens) ==
    IF json_tokens > 0
    THEN Rat((json_tokens - toon_tokens) * 100, json_tokens)
    ELSE Zero

\* compare_formats without its try: an error of to_toon or of the count of the
\* TOON text is passed on
compare_formats_strict(data, fault, jenc, tenc) ==
    LET jc == count_tokens(to_json_string(data), jenc)
        toon == to_toon(data, fault)
        tc == count_tokens(toon.val, tenc)
    IN  IF ~jc.ok THEN jc
        ELSE IF ~toon.ok THEN toon
        ELSE IF ~tc.ok THEN tc
        ELSE Ok([json_tokens |-> jc.val,
                 toon_tokens |-> tc.val,
                 savings |-> Savings(jc.val, tc.val)])

\* compare_formats(data): the record returned, or the error raised
compare_formats(data, fault, jenc, tenc) ==
    LET json_str == to_json_string(data)
        jc == count_tokens(json_str, jenc)
        toon == to_toon(data, fault)
        tc == count_tokens(toon.val, tenc)
        json_tokens == jc.val
        toon_tokens == IF toon.ok /\ tc.ok THEN tc.val ELSE json_tokens
    IN  IF ~jc.ok THEN jc
        ELSE Ok([json_tokens |-> json_tokens,
                 toon_tokens |-> toon_tokens,
                 savings |-> Savings(json_tokens, toon_tokens)])

\* --------------------------------------------------------------- normalise
\* normalise_usage without the cap at 1.0
normalise_usage_uncapped(token_count, context_limit) ==
    IF context_limit <= 0
    THEN Raise("ValueError", "Context limit must be positive")
    ELSE Ok(Rat(token_count, context_limit))

\* normalise_usage(token_count, context_limit)
normalise_usage(token_count, context_limit) ==
    IF context_limit <= 0
    THEN Raise("ValueError", "Context limit must be positive")
    ELSE LET q == Rat(token_count, context_limit)
         IN  Ok(IF RatLeq(q, One) THEN q ELSE One)

\* ------------------------------------------------------------ model catalog
\* name and context of each record; the non-breaking hyphens of the names
\* GPT-4 Turbo, GPT-4.1 and Phi-3 Medium are written as plain hyphens
ModelInfo(name, context) == [name |-> name, context |-> context]

get_open_source_models ==
    << ModelInfo("Mistral 7B Instruct", 8000),
       ModelInfo("XGen 7B 8K", 8192),
       ModelInfo("Llama 2 7B", 4096) >>

get_proprietary_models ==
    << ModelInfo("GPT-4 Turbo", 128000),
       ModelInfo("GPT-4.1", 1000000),
       ModelInfo("Claude 3 Sonnet", 200000),
       ModelInfo("Claude 4.5 (beta)", 1000000),
       ModelInfo("Gemini 2.5 Pro", 1000000),
       ModelInfo("DeepSeek V3.2", 128000),
       ModelInfo("Phi-3 Medium", 128000),
       ModelInfo("Grok 4 Fast", 2000000) >>

RECURSIVE Dedup(_, _, _)
\* the loop of collect_models: keep a model unless its name was seen
Dedup(models, seen, unique) ==
    IF Len(models) = 0 THEN unique
    ELSE LET m == Head(models)
         IN  IF m.name \notin seen
             THEN Dedup(Tail(models), seen \cup {m.name}, Append(unique, m))
             ELSE Dedup(Tail(models), seen, unique)

\* collect_models matching the selector as it was typed
collect_models_as_typed(selection) ==
    LET open == IF selection \in {"open-source", "open", "all"}
                THEN get_open_source_models ELSE << >>
        closed == IF selection \in {"proprietary", "closed", "all"}
                  THEN get_proprietary_models ELSE << >>
    IN  Dedup(open \o closed, {}, << >>)

collect_models(selection) ==
    LET sel == Lower(Strip(selection))
        open == IF sel \in {"open-source", "open", "all"}
                THEN get_open_source_models ELSE << >>
        closed == IF sel \in {"proprietary", "closed", "all"}
                  THEN get_proprietary_models ELSE << >>
    IN  Dedup(open \o closed, {}, << >>)

\* the default of --models
DefaultModels == "open-source,proprietary"

\* the selectors tried
Selections ==
    {"all", " ALL\n", "open-source", "Open", "\topen-source ", "proprietary",
     "CLOSED ", "closed", DefaultModels, "proprietary,open-source",
     "open-source, proprietary", "open,closed", "all,all", "", "gpt"}

\* ------------------------------------------------------------- HTTP service
\* /encode answering a failure with a fixed text
encode_data_fixed_detail(data, fault) ==
    LET r == to_toon(data, fault)
    IN  IF r.ok THEN [status |-> 200, toon |-> r.val]
        ELSE [status |-> 400, detail |-> "Encoding failed"]

\* POST /encode
encode_data(data, fault) ==
    LET r == to_toon(data, fault)
    IN  IF r.ok THEN [status |-> 200, toon |-> r.val]
        ELSE [status |-> 400, detail |-> r.msg]

\* POST /decode
decode_toon(toon) ==
    LET r == from_toon(toon)
    IN  IF r.ok THEN [status |-> 200, data |-> r.val]
        ELSE [status |-> 400, detail |-> r.msg]

\* POST /compare: an error of compare_formats is not caught (500)
compare(data, fault, jenc, tenc) ==
    LET r == compare_formats(data, fault, jenc, tenc)
    IN  IF r.ok THEN [status |-> 200, result |-> r.val]
        ELSE [status |-> 500, detail |-> "Internal Server Error"]

\* the extension test of /upload, without lowering the name
json_filename_as_typed(filename) == EndsWith(filename, ".json")

\* the extension test of /upload
json_filename(filename) == EndsWith(Lower(filename), ".json")

\* POST /upload; calls lists what the handler did, in order
upload(filename, contents, fault, jenc, tenc) ==
    LET parsed == JsonLoads(contents)
        data == parsed.val
        t == to_toon(data, fault)
        toon_str == IF t.ok THEN Some(t.val) ELSE None
        toon_error ==
            IF t.ok THEN None
            ELSE IF IsRuntimeError(t.cls) THEN Some(t.msg)
            ELSE Some("Error encoding to TOON: " \o t.msg)
        r == compare_formats(data, fault, jenc, tenc)
        \* a str is true unless it is empty
        adjust == toon_str = None /\ toon_error # None /\ toon_error.v # ""
        result == IF adjust
                  THEN [r.val EXCEPT !.toon_tokens = r.val.json_tokens,
                                     !.savings = Zero]
                  ELSE r.val
    IN  IF ~json_filename(filename)
        THEN [status |-> 400, detail |-> "Only JSON files are supported",
              calls |-> << >>]
        ELSE IF ~parsed.ok
        THEN [status |-> 400, detail |-> "Invalid JSON file",
              calls |-> <<"read", "json.loads">>]
        ELSE IF ~r.ok
        THEN [status |-> 500, detail |-> "Internal Server Error",
              calls |-> <<"read", "json.loads", "to_toon", "compare_formats">>]
        ELSE [status |-> 200, toon |-> toon_str, toon_error |-> toon_error,
              comparison |-> result, original_json |-> JsonDumps(data, Some(2)),
              calls |-> <<"read", "json.loads", "to_toon", "compare_formats">>]

\* the files uploaded: names and contents
Filenames ==
    {"data.json", "DATA.JSON", "d.Json", "data.txt", "json", "data.json.txt", ""}
Contents ==
    {JsonDumps(d, None) : d \in Data} \cup {JsonDumps(d, Some(2)) : d \in Data}
    \cup {"{not valid json", ""}

\* the texts posted to /decode
DecodeInputs ==
    {ToonText(d) : d \in Data} \cup {"", "[2]: 1", "[1] 1", "{not toon"}

\* ------------------------------------------------------------------ charts
\* Each chart function returns the name of the file it saved, or raises.
\* renders: whether Matplotlib draws and saves the figure without an error.
RenderError == Raise("OSError", "cannot save figure")

plot_bar(result, renders) ==
    IF renders THEN Ok("bar_chart.png") ELSE RenderError

plot_delta(result, renders) ==
    IF renders THEN Ok("delta_chart.png") ELSE RenderError

\* normalise_usage is called for every model before anything is drawn
plot_radar(result, models, renders) ==
    LET bad == {k \in 1..Len(models) :
                   \/ ~normalise_usage(result.json_tokens, models[k].context).ok
                   \/ ~normalise_usage(result.toon_tokens, models[k].context).ok}
    IN  IF bad # {}
        THEN normalise_usage(result.json_tokens,
                             models[CHOOSE k \in bad : \A j \in bad : k <= j].context)
        ELSE IF renders THEN Ok("radar_chart.png") ELSE RenderError

\* the two radii divide by max_tokens before anything is drawn
plot_spiral(result, renders) ==
    LET json_tokens == result.json_tokens
        toon_tokens == result.toon_tokens
        max_tokens == IF json_tokens >= toon_tokens THEN json_tokens
                      ELSE toon_tokens
    IN  IF max_tokens = 0
        THEN Raise("ZeroDivisionError", "float division by zero")
        ELSE IF renders THEN Ok("spiral_chart.png") ELSE RenderError

\* ------------------------------------------------------------- command line
\* load_data(path): file is None when nothing exists at the path, else what
\* the file holds
load_data(file) ==
    IF file = None
    THEN Raise("FileNotFoundError", "Dataset file not found")
    ELSE JsonLoads(file.v)

\* main with the charts drawn whatever --no-plots says
main_steps_always_plots(no_plots) ==
    <<"mkdir", "load_data", "compare_formats", "print_report",
      "plot_bar", "plot_delta", "collect_models", "plot_radar", "plot_spiral",
      "print_saved">>

\* the statements of main, in the order of the text, for a value of --no-plots
main_steps(no_plots) ==
    <<"mkdir", "load_data", "compare_formats", "print_report">>
    \o (IF ~no_plots
        THEN <<"plot_bar", "plot_delta", "collect_models", "plot_radar",
               "plot_spiral", "print_saved">>
        ELSE <<"print_skipped">>)

\* the dataset files of the runs: none, or a file with some contents
DataFiles == {None} \cup {Some(c) : c \in Contents}

\* the values of --models of the runs
ModelsArgs == {DefaultModels, "all", "open-source"}

\* ------------------------------------------------------------------ actions
\* What the environment can answer in one request: the codec is asked only
\* when it is installed, the tokenizer only when its encoding is loaded.
FaultsAsked == IF toonPkg = "both" THEN CodecFaults ELSE {NoFault}
NotAsked == {[raises |-> FALSE, n |-> 0]}
EncodeAsked(text) == IF tiktoken = "working" THEN EncodeOutcomes(text) ELSE NotAsked

\* no call is being handled and no run of the command line is under way
Ready == last.op = "start" /\ cli.state = "idle"

Init ==
    /\ toonPkg \in ToonPackages
    /\ tiktoken \in Tokenizers
    /\ last = [op |-> "start"]
    /\ cli = [state |-> "idle"]

Encode ==
    /\ Ready
    /\ \E data \in Data, fault \in FaultsAsked :
        /\ last' = [op |-> "encode", data |-> data,
                    outcome |-> to_toon(data, fault),
                    resp |-> encode_data(data, fault)]
        /\ UNCHANGED <<toonPkg, tiktoken, cli>>

\* a client posts any text to /decode
Decode ==
    /\ Ready
    /\ \E toon \in DecodeInputs :
        /\ last' = [op |-> "decode", toon |-> toon, payload |-> None,
                    outcome |-> from_toon(toon),
                    resp |-> decode_toon(toon)]
        /\ UNCHANGED <<toonPkg, tiktoken, cli>>

\* a client feeds the text /encode returned to /decode
DecodeReturned ==
    /\ last.op = "encode"
    /\ last.resp.status = 200
    /\ last' = [op |-> "decode", toon |-> last.resp.toon,
                payload |-> Some(last.data),
                outcome |-> from_toon(last.resp.toon),
                resp |-> decode_toon(last.resp.toon)]
    /\ UNCHANGED <<toonPkg, tiktoken, cli>>

Compare ==
    /\ Ready
    /\ \E data \in Data, fault \in FaultsAsked :
       \E jenc \in EncodeAsked(to_json_string(data)),
          tenc \in EncodeAsked(ToonText(data)) :
        /\ last' = [op |-> "compare", data |-> data,
                    jcount |-> count_tokens(to_json_string(data), jenc),
                    toon |-> to_toon(data, fault),
                    tcount |-> count_tokens(ToonText(data), tenc),
                    returned |-> compare_formats(data, fault, jenc, tenc),
                    resp |-> compare(data, fault, jenc, tenc)]
        /\ UNCHANGED <<toonPkg, tiktoken, cli>>

Upload ==
    /\ Ready
    /\ \E filename \in Filenames, contents \in Contents :
       LET parsed == JsonLoads(contents)
           reached == json_filename(filename) /\ parsed.ok
       IN
       \E fault \in (IF reached THEN FaultsAsked ELSE {NoFault}),
          jenc \in (IF reached THEN EncodeAsked(to_json_string(parsed.val))
                    ELSE NotAsked),
          tenc \in (IF reached THEN EncodeAsked(ToonText(parsed.val))
                    ELSE NotAsked) :
        /\ last' = [op |-> "upload", filename |-> filename,
                    contents |-> contents,
                    parsed |-> parsed,
                    toon |-> IF parsed.ok THEN Some(to_toon(parsed.val, fault))
                             ELSE None,
                    jcount |-> IF parsed.ok
                               THEN Some(count_tokens(to_json_string(parsed.val), jenc))
                               ELSE None,
                    resp |-> upload(filename, contents, fault, jenc, tenc)]
        /\ UNCHANGED <<toonPkg, tiktoken, cli>>

NormaliseUsage ==
    /\ Ready
    /\ \E token_count \in -1..MaxUsage, context_limit \in -1..MaxUsage :
        /\ last' = [op |-> "normalise_usage", token_count |-> token_count,
                    context_limit |-> context_limit,
                    outcome |-> normalise_usage(token_count, context_limit)]
        /\ UNCHANGED <<toonPkg, tiktoken, cli>>

CollectModels ==
    /\ Ready
    /\ \E selection \in Selections :
        /\ last' = [op |-> "collect_models", selection |-> selection,
                    models |-> collect_models(selection)]
        /\ UNCHANGED <<toonPkg, tiktoken, cli>>

\* the call is over; no call leaves anything behind for the next one
Idle ==
    /\ last.op # "start"
    /\ last' = [op |-> "start"]
    /\ UNCHANGED <<toonPkg, tiktoken, cli>>

\* count_tokens called on any text, the empty one too
CountTokens ==
    /\ Ready
    /\ \E text \in {""} \cup {to_json_string(d) : d \in Data}
                   \cup {ToonText(d) : d \in Data} :
       \E enc \in EncodeAsked(text) :
        /\ last' = [op |-> "count_tokens", text |-> text,
                    outcome |-> count_tokens(text, enc)]
        /\ UNCHANGED <<toonPkg, tiktoken, cli>>

\* plot_spiral called on any pair of counts
PlotSpiral ==
    /\ Ready
    /\ \E json_tokens \in 0..MaxUsage, toon_tokens \in 0..MaxUsage,
          renders \in BOOLEAN :
        /\ last' = [op |-> "plot_spiral", json_tokens |-> json_tokens,
                    toon_tokens |-> toon_tokens,
                    outcome |-> plot_spiral([json_tokens |-> json_tokens,
                                             toon_tokens |-> toon_tokens,
                                             savings |-> Zero], renders)]
        /\ UNCHANGED <<toonPkg, tiktoken, cli>>

\* ---- the run of main, one statement at a time
\* the statement the run is at
AtStep(name) ==
    /\ cli.state = "running"
    /\ main_steps(cli.no_plots)[cli.pc] = name

\* the run after a statement: done holds what the statement did
Advance(run, done) ==
    [run EXCEPT !.out = Append(@, done),
                !.pc = @ + 1,
                !.state = IF run.pc = Len(main_steps(run.no_plots))
                          THEN "done" ELSE "running"]

\* the run after a statement raised: nothing catches it
Abort(run, exc) == [run EXCEPT !.state = "failed", !.error = Some(exc)]

\* the run after a chart function returned or raised
Plotted(run, outcome) ==
    IF outcome.ok THEN Advance(run, outcome.val) ELSE Abort(run, outcome)

MainStart ==
    /\ Ready
    /\ \E file \in DataFiles, no_plots \in BOOLEAN, models_arg \in ModelsArgs :
        cli' = [state |-> "running", file |-> file, no_plots |-> no_plots,
                models_arg |-> models_arg, pc |-> 1, out |-> << >>,
                data |-> << >>, result |-> None, models |-> None,
                error |-> None]
    /\ UNCHANGED <<toonPkg, tiktoken, last>>

\* out_dir.mkdir(parents=True, exist_ok=True): the directory is there
\* afterwards, or the file system refuses
MainMkdir ==
    /\ AtStep("mkdir")
    /\ \E made \in BOOLEAN :
         cli' = IF made THEN Advance(cli, "mkdir")
                ELSE Abort(cli, Raise("OSError", "cannot create directory"))
    /\ UNCHANGED <<toonPkg, tiktoken, last>>

MainLoadData ==
    /\ AtStep("load_data")
    /\ LET r == load_data(cli.file)
       IN  cli' = IF r.ok
                  THEN [Advance(cli, "load_data") EXCEPT !.data = r.val]
                  ELSE Abort(cli, r)
    /\ UNCHANGED <<toonPkg, tiktoken, last>>

MainCompareFormats ==
    /\ AtStep("compare_formats")
    /\ \E fault \in FaultsAsked :
       \E jenc \in EncodeAsked(to_json_string(cli.data)),
          tenc \in EncodeAsked(ToonText(cli.data)) :
         LET r == compare_formats(cli.data, fault, jenc, tenc)
         IN  cli' = IF r.ok
                    THEN [Advance(cli, "compare_formats")
                             EXCEPT !.result = Some(r.val)]
                    ELSE Abort(cli, r)
    /\ UNCHANGED <<toonPkg, tiktoken, last>>

MainPrintReport ==
    /\ AtStep("print_report")
    /\ cli' = Advance(cli, "print_report")
    /\ UNCHANGED <<toonPkg, tiktoken, last>>

MainPlotBar ==
    /\ AtStep("plot_bar")
    /\ \E renders \in BOOLEAN :
         cli' = Plotted(cli, plot_bar(cli.result.v, renders))
    /\ UNCHANGED <<toonPkg, tiktoken, last>>

MainPlotDelta ==
    /\ AtStep("plot_delta")
    /\ \E renders \in BOOLEAN :
         cli' = Plotted(cli, plot_delta(cli.result.v, renders))
    /\ UNCHANGED <<toonPkg, tiktoken, last>>

MainCollectModels ==
    /\ AtStep("collect_models")
    /\ cli' = [Advance(cli, "collect_models")
                  EXCEPT !.models = Some(collect_models(cli.models_arg))]
    /\ UNCHANGED <<toonPkg, tiktoken, last>>

MainPlotRadar ==
    /\ AtStep("plot_radar")
    /\ \E renders \in BOOLEAN :
         cli' = Plotted(cli, plot_radar(cli.result.v, cli.models.v, renders))
    /\ UNCHANGED <<toonPkg, tiktoken, last>>

MainPlotSpiral ==
    /\ AtStep("plot_spiral")
    /\ \E renders \in BOOLEAN :
         cli' = Plotted(cli, plot_spiral(cli.result.v, renders))
    /\ UNCHANGED <<toonPkg, tiktoken, last>>

MainPrintSaved ==
    /\ AtStep("print_saved")
    /\ cli' = Advance(cli, "print_saved")
    /\ UNCHANGED <<toonPkg, tiktoken, last>>

MainPrintSkipped ==
    /\ AtStep("print_skipped")
    /\ cli' = Advance(cli, "print_skipped")
    /\ UNCHANGED <<toonPkg, tiktoken, last>>

\* the process has ended, normally or with a traceback
MainExit ==
    /\ cli.state \in {"done", "failed"}
    /\ cli' = [state |-> "idle"]
    /\ UNCHANGED <<toonPkg, tiktoken, last>>

Next ==
    \/ CountTokens
    \/ PlotSpiral
    \/ MainStart
    \/ MainMkdir
    \/ MainLoadData
    \/ MainCompareFormats
    \/ MainPrintReport
    \/ MainPlotBar
    \/ MainPlotDelta
    \/ MainCollectModels
    \/ MainPlotRadar
    \/ MainPlotSpiral
    \/ MainPrintSaved
    \/ MainPrintSkipped
    \/ MainExit
    \/ Encode
    \/ Decode
    \/ DecodeReturned
    \/ Compare
    \/ Upload
    \/ NormaliseUsage
    \/ CollectModels
    \/ Idle

Spec == Init /\ [][Next]_vars

\* ------------------------------------------------------------------- claims
Compared == last.op = "compare" /\ last.returned.ok
Result == last.returned.val

\* C1: every record compare_formats returns has json_tokens >= 0 and
\* toon_tokens >= 0, and its savings is (json_tokens - toon_tokens) /
\* json_tokens * 100 when json_tokens > 0 and 0 otherwise; so savings is 0
\* whenever the two counts are equal.
C1_SavingsInvariant ==
    Compared =>
        /\ Result.json_tokens >= 0
        /\ Result.toon_tokens >= 0
        /\ Result.savings.den > 0
        /\ IF Result.json_tokens > 0
           THEN Result.savings.num * Result.json_tokens
                    = (Result.json_tokens - Result.toon_tokens) * 100
                          * Result.savings.den
           ELSE Result.savings.num = 0
        /\ (Result.toon_tokens = Result.json_tokens => Result.savings.num = 0)

\* a comparison whose TOON text was counted and came out shorter than the JSON
C1_Witness ==
    /\ Compared
    /\ last.toon.ok
    /\ Result.json_tokens > 0
    /\ Result.toon_tokens < Result.json_tokens
    /\ Result.savings.num > 0

\* C2: when producing the TOON text or counting its tokens fails,
\* compare_formats still returns a record, with toon_tokens = json_tokens and
\* savings = 0; and POST /compare answers 200 with the three fields for every
\* payload, whatever the codec does.
C2_CompareNeverFails ==
    last.op = "compare" =>
        /\ (~last.toon.ok \/ ~last.tcount.ok) =>
               /\ last.returned.ok
               /\ Result.toon_tokens = Result.json_tokens
               /\ Result.savings.num = 0
        /\ last.resp.status = 200
        /\ DOMAIN last.resp.result = {"json_tokens", "toon_tokens", "savings"}

\* C3: an upload of a .json file holding valid JSON succeeds whether or not
\* to_toon fails: on failure toon is absent, toon_error carries the message
\* and the comparison has toon_tokens = json_tokens and savings = 0; on
\* success toon is the text and toon_error is absent; in both cases
\* original_json is present and the comparison satisfies the savings invariant.
C3_UploadSurvivesToon ==
    (last.op = "upload" /\ json_filename(last.filename) /\ last.parsed.ok) =>
        LET t == last.toon.v
            r == last.resp
        IN  /\ r.status = 200
            /\ r.original_json = to_json_string(last.parsed.val)
            /\ r.comparison.savings.den > 0
            /\ IF r.comparison.json_tokens > 0
               THEN r.comparison.savings.num * r.comparison.json_tokens
                        = (r.comparison.json_tokens - r.comparison.toon_tokens)
                              * 100 * r.comparison.savings.den
               ELSE r.comparison.savings.num = 0
            /\ IF t.ok
               THEN r.toon = Some(t.val) /\ r.toon_error = None
               ELSE /\ r.toon = None
                    /\ r.toon_error \in
                           {Some(t.msg), Some("Error encoding to TOON: " \o t.msg)}
                    /\ r.comparison.toon_tokens = r.comparison.json_tokens
                    /\ r.comparison.savings.num = 0

\* the file names of the uploads that end in .json, whatever the case
JsonNames == {"data.json", "DATA.JSON", "d.Json"}

\* C4: /upload rejects a file whose name does not end in .json (compared
\* without case) with 400 "Only JSON files are supported" whatever it holds
\* and before reading it; it rejects a .json file that is not valid JSON with
\* 400 "Invalid JSON file"; in neither case is the data encoded or compared.
C4_UploadValidationOrder ==
    last.op = "upload" =>
        /\ last.filename \notin JsonNames =>
               /\ last.resp.status = 400
               /\ last.resp.detail = "Only JSON files are supported"
               /\ last.resp.calls = << >>
        /\ (last.filename \in JsonNames /\ ~last.parsed.ok) =>
               /\ last.resp.status = 400
               /\ last.resp.detail = "Invalid JSON file"
               /\ \A i \in 1..Len(last.resp.calls) :
                      last.resp.calls[i] \notin {"to_toon", "compare_formats"}

\* a file of valid JSON under a name that is no .json name is turned away
C4_Witness ==
    /\ last.op = "upload"
    /\ last.filename = "data.txt"
    /\ last.parsed.ok
    /\ last.resp.status = 400
    /\ last.resp.detail = "Only JSON files are supported"

\* C5: /encode and /decode answer 400 with the failure's own message as
\* detail whenever the conversion fails and 200 with the text / the data
\* otherwise; the text /encode returned for a payload, fed to /decode, gives
\* 200 and data equal to the payload.
C5_EncodeDecodeErrors ==
    /\ last.op \in {"encode", "decode"} =>
           IF last.outcome.ok
           THEN last.resp.status = 200
           ELSE /\ last.resp.status = 400
                /\ last.resp.detail = last.outcome.msg
    /\ (last.op = "encode" /\ last.outcome.ok) =>
           last.resp.toon = last.outcome.val
    /\ (last.op = "decode" /\ last.outcome.ok) =>
           last.resp.data = last.outcome.val
    /\ (last.op = "decode" /\ last.payload # None) =>
           /\ last.resp.status = 200
           /\ last.resp.data = last.payload.v

\* the text of a dataset that is not empty came back from /decode
C5_Witness ==
    /\ last.op = "decode"
    /\ last.payload # None
    /\ Len(last.payload.v) = MaxLen
    /\ last.resp.status = 200

\* C6: with no codec installed, and with a codec installed that lacks dumps
\* or loads, to_toon and from_toon raise the RuntimeError that tells the user
\* to install the codec; they return nothing.
C6_Unavailable ==
    toonPkg \in {"missing", "no_dumps", "no_loads"} =>
        /\ last.op = "encode" =>
               last.outcome = Raise("RuntimeError", EncInstallMsg)
        /\ last.op = "decode" =>
               last.outcome = Raise("RuntimeError", DecInstallMsg)
        /\ last.op \in {"compare", "upload"} /\ last.toon # None =>
               (IF last.op = "compare" THEN last.toon ELSE last.toon.v)
                   = Raise("RuntimeError", EncInstallMsg)

\* a well-formed TOON text was refused because the codec has no loads
C6_Witness ==
    /\ toonPkg = "no_loads"
    /\ last.op = "decode"
    /\ last.toon = ToonText(<<IntItem(1), IntItem(1)>>)
    /\ ~last.outcome.ok

\* C7: for context_limit > 0 normalise_usage returns
\* min(token_count / context_limit, 1.0): a value in [0, 1] when token_count
\* >= 0 and exactly 1.0 when token_count >= context_limit; for context_limit
\* <= 0 it raises ValueError, whatever token_count is, and never divides.
C7_NormaliseUsage ==
    last.op = "normalise_usage" =>
        LET tc == last.token_count
            cl == last.context_limit
            o == last.outcome
        IN  /\ cl > 0 =>
                /\ o.ok
                /\ o.val.den > 0
                /\ IF tc >= cl
                   THEN o.val.num = o.val.den
                   ELSE o.val.num * cl = tc * o.val.den
                /\ tc >= 0 => (0 <= o.val.num /\ o.val.num <= o.val.den)
            /\ cl <= 0 =>
                /\ ~o.ok
                /\ o.cls = "ValueError"

\* a count above the limit was capped
C7_Witness ==
    /\ last.op = "normalise_usage"
    /\ last.context_limit > 0
    /\ last.token_count > last.context_limit
    /\ last.outcome.ok

OpenNames == <<"Mistral 7B Instruct", "XGen 7B 8K", "Llama 2 7B">>
ClosedNames ==
    <<"GPT-4 Turbo", "GPT-4.1", "Claude 3 Sonnet", "Claude 4.5 (beta)",
      "Gemini 2.5 Pro", "DeepSeek V3.2", "Phi-3 Medium", "Grok 4 Fast">>
NamesOf(models) == [i \in 1..Len(models) |-> models[i].name]

\* C8: collect_models trims and lowercases the selector and returns no name
\* twice: "all" gives the 3 open-source records followed by the 8 proprietary
\* ones, "open-source" and "open" the 3 open-source records in catalog order,
\* "proprietary" and "closed" the 8 proprietary records in catalog order.
C8_CollectModels ==
    last.op = "collect_models" =>
        LET names == NamesOf(last.models)
        IN  /\ \A i, j \in 1..Len(names) : names[i] = names[j] => i = j
            /\ last.selection \in {"all", " ALL\n"} =>
                   names = OpenNames \o ClosedNames /\ Len(names) = 11
            /\ last.selection \in {"open-source", "Open", "\topen-source "} =>
                   names = OpenNames
            /\ last.selection \in {"proprietary", "closed", "CLOSED "} =>
                   names = ClosedNames

\* the selector all, typed in capitals between blanks, selected the 11 models
C8_Witness ==
    /\ last.op = "collect_models"
    /\ last.selection = " ALL\n"
    /\ Len(last.models) = 11

\* C9: a comma-separated selector selects the catalog of every category it
\* lists, so the default of --models selects all 11 models.
C9_CommaSeparated ==
    last.op = "collect_models" =>
        LET names == NamesOf(last.models)
        IN  /\ last.selection \in {DefaultModels, "open-source, proprietary",
                                   "open,closed"} =>
                   names = OpenNames \o ClosedNames
            /\ last.selection = "proprietary,open-source" =>
                   Len(names) = 11

\* C10 as stated: every comparison has toon_tokens <= json_tokens or
\* savings = 0, whatever the token count of the TOON text.
C10_ToonNeverLarger ==
    Compared =>
        \/ Result.toon_tokens <= Result.json_tokens
        \/ Result.savings.num = 0

\* C10 as amended: every comparison has toon_tokens <= json_tokens or
\* savings < 0; savings is 0 exactly when the two counts are equal.
C10_LargerToonIsNegativeSavings ==
    Compared =>
        /\ Result.savings.den > 0
        /\ \/ Result.toon_tokens <= Result.json_tokens
           \/ Result.savings.num < 0
        /\ Result.json_tokens > 0 =>
               (Result.savings.num = 0 <=> Result.toon_tokens = Result.json_tokens)

\* the TOON text of a dataset counted more tokens than its JSON text
C10_Witness ==
    /\ Compared
    /\ last.toon.ok
    /\ Result.toon_tokens > Result.json_tokens
    /\ Result.savings.num < 0


\* ---- the command line
Running == cli.state # "idle"
Printed(event) == \E k \in 1..Len(cli.out) : cli.out[k] = event
Charts ==
    {"bar_chart.png", "delta_chart.png", "radar_chart.png", "spiral_chart.png"}
ChartWritten == \E c \in Charts : Printed(c)
DatasetUnreadable == cli.file = None \/ ~load_data(cli.file).ok

\* C11 as stated: a run whose dataset file is missing, whose dataset file is
\* not valid JSON, or that finds no TOON codec never completes, never prints
\* the token report and never writes a chart.
C11_ThreeFailuresTerminate ==
    (Running /\ (DatasetUnreadable \/ toon_dumps = "None")) =>
        /\ cli.state # "done"
        /\ ~Printed("print_report")
        /\ ~ChartWritten

\* C11 amended: a run whose dataset file is missing or not valid JSON never
\* completes, prints no report and writes no chart, and it ends with the
\* error load_data raised; a run that finds no TOON codec is not ended by it:
\* the codec's RuntimeError never ends a run, and the comparison such a run
\* gets has toon_tokens = json_tokens and savings 0.
C11_LoadFailuresTerminate ==
    Running =>
        /\ DatasetUnreadable =>
              /\ cli.state # "done"
              /\ ~Printed("print_report")
              /\ ~ChartWritten
              /\ (Printed("mkdir") /\ cli.state = "failed"
                    => cli.error.v = load_data(cli.file))
        /\ cli.state = "failed" =>
              ~(cli.error.v.cls = "RuntimeError"
                /\ cli.error.v.msg = EncInstallMsg)
        /\ (toon_dumps = "None" /\ cli.result # None) =>
              /\ cli.result.v.toon_tokens = cli.result.v.json_tokens
              /\ cli.result.v.savings.num = 0

\* a run that found no TOON codec, printed the report, wrote the four charts
\* and completed
C11_Witness ==
    /\ cli.state = "done"
    /\ toon_dumps = "None"
    /\ Printed("print_report")
    /\ \A c \in Charts : Printed(c)

\* the events of a complete run, as the claim lists them
WithPlots ==
    <<"mkdir", "load_data", "compare_formats", "print_report",
      "bar_chart.png", "delta_chart.png", "collect_models", "radar_chart.png",
      "spiral_chart.png", "print_saved">>
WithoutPlots ==
    <<"mkdir", "load_data", "compare_formats", "print_report", "print_skipped">>
Expected == IF cli.no_plots THEN WithoutPlots ELSE WithPlots
IsPrefix(s, t) == Len(s) <= Len(t) /\ s = SubSeq(t, 1, Len(s))

\* C12: what a run has done so far is always an initial part of: create the
\* output directory, load the dataset, compare the formats, print the report,
\* then without --no-plots write bar_chart.png, delta_chart.png,
\* radar_chart.png and spiral_chart.png in that order and print the output
\* directory, with --no-plots print the skip notice; a completed run has done
\* all of it. With --no-plots no chart is written and collect_models is not
\* called; a chart is written only when the report was printed; and the
\* output directory exists when the load of the dataset fails.
C12_MainOrder ==
    Running =>
        /\ IsPrefix(cli.out, Expected)
        /\ cli.state = "done" => cli.out = Expected
        /\ cli.no_plots => ~ChartWritten /\ ~Printed("collect_models")
        /\ ChartWritten => Printed("print_report")
        /\ (cli.state = "failed" /\ cli.error.v = load_data(cli.file)
              /\ ~load_data(cli.file).ok)
             => cli.out = <<"mkdir">>

\* a run without --no-plots that wrote the four charts and printed the
\* directory
C12_Witness ==
    /\ cli.state = "done"
    /\ ~cli.no_plots
    /\ cli.out = WithPlots

\* C13: plot_spiral called with json_tokens = 0 and toon_tokens = 0 does not
\* raise a division fault.
C13_SpiralGuarded ==
    (last.op = "plot_spiral" /\ last.json_tokens = 0 /\ last.toon_tokens = 0)
        => ~(~last.outcome.ok /\ last.outcome.cls = "ZeroDivisionError")

\* C14: when tiktoken is not installed, count_tokens(text) is
\* ceil(len(text) / 4), which is 0 for the empty text only; every record
\* compare_formats returns, to /compare or to main, then has json_tokens >= 1;
\* and in a run of main plot_spiral is never entered with max_tokens = 0 and
\* never ends the run with a division fault.
C14_FallbackNeverZero ==
    tiktoken = "absent" =>
        /\ last.op = "count_tokens" =>
              /\ last.outcome.ok
              /\ 4 * last.outcome.val >= Len(last.text)
              /\ 4 * (last.outcome.val - 1) < Len(last.text)
              /\ (last.outcome.val = 0 <=> last.text = "")
        /\ Compared => Result.json_tokens >= 1
        /\ (Running /\ cli.result # None) =>
              /\ cli.result.v.json_tokens >= 1
              /\ plot_spiral(cli.result.v, TRUE).ok
        /\ (Running /\ cli.state = "failed") =>
              cli.error.v.cls # "ZeroDivisionError"

\* a run without tiktoken that got past plot_spiral and wrote its chart
C14_Witness ==
    /\ tiktoken = "absent"
    /\ Running
    /\ Printed("spiral_chart.png")
    /\ cli.result.v.json_tokens >= 1

====
